---- MODULE Spec2Model ----
(***************************************************************************)
(* Model of the two scripts of ml-wc-practitioners-catalog:                *)
(*   plugin-files/create-plugin-zip.py  (the Plugin Packager)              *)
(*   catalog/optimize-images.py         (the Image Optimizer)              *)
(* Text is a sequence of one-character strings, a file system directory    *)
(* is a record [exists, files] whose files map names to contents, and a    *)
(* zip archive is a sequence of entries [name, data].                      *)
(***************************************************************************)
EXTENDS Integers, Sequences, FiniteSets, TLC

VARIABLES
    verIn, verOut,                              \* get_version_from_php alone
    imgIn, imgOut,                              \* optimize_image alone
    phpFile, releases, exitStatus, ppc,         \* Plugin Packager runs
    host, srcDir, outDir, zipFile, optExit, written, opc   \* Optimizer runs

vars == <<verIn, verOut, imgIn, imgOut, phpFile, releases, exitStatus, ppc,
          host, srcDir, outDir, zipFile, optExit, written, opc>>

verVars == <<verIn, verOut>>
imgVars == <<imgIn, imgOut>>
pkgVars == <<phpFile, releases, exitStatus, ppc>>
optVars == <<host, srcDir, outDir, zipFile, optExit, written, opc>>

(***************************************************************************)
(* Bounds of the explored inputs.                                          *)
(***************************************************************************)
\* most pieces a generated source text is concatenated from
MaxPieces == 5
\* most pixels of a generated image
MaxPixels == 2

(***************************************************************************)
(* Python str operations, on sequences of characters.                      *)
(***************************************************************************)
Range(s) == {s[i] : i \in DOMAIN s}

\* s[i:i+len(k)] == k
MatchAt(s, k, i) ==
    /\ i + Len(k) - 1 <= Len(s)
    /\ \A j \in 1..Len(k) : s[i + j - 1] = k[j]

\* k in s
Contains(s, k) == \E i \in 1..(Len(s) + 1) : MatchAt(s, k, i)

\* s.find(k) as a 1-based index, 0 when k does not occur
Find(s, k) ==
    IF Contains(s, k)
    THEN CHOOSE i \in 1..(Len(s) + 1) :
            /\ MatchAt(s, k, i)
            /\ \A j \in 1..(i - 1) : ~MatchAt(s, k, j)
    ELSE 0

\* s.split(k): the pieces between the non-overlapping occurrences of k,
\* found left to right
RECURSIVE Split(_, _)
Split(s, k) ==
    LET i == Find(s, k)
    IN  IF i = 0
        THEN <<s>>
        ELSE <<SubSeq(s, 1, i - 1)>> \o Split(SubSeq(s, i + Len(k), Len(s)), k)

Whitespace == {" ", "\n", "\t", "\r"}

RECURSIVE LStrip(_)
LStrip(s) ==
    IF s # <<>> /\ Head(s) \in Whitespace THEN LStrip(Tail(s)) ELSE s

RECURSIVE RStrip(_)
RStrip(s) ==
    IF s # <<>> /\ s[Len(s)] \in Whitespace
    THEN RStrip(SubSeq(s, 1, Len(s) - 1))
    ELSE s

\* s.strip()
Strip(s) == RStrip(LStrip(s))

\* iterating a text file: the lines, each with its newline
RECURSIVE FileLines(_)
FileLines(text) ==
    IF text = <<>>
    THEN <<>>
    ELSE LET n == Find(text, <<"\n">>)
         IN  IF n = 0
             THEN <<text>>
             ELSE <<SubSeq(text, 1, n)>> \o FileLines(SubSeq(text, n + 1, Len(text)))

(***************************************************************************)
(* create-plugin-zip.py: get_version_from_php                              *)
(***************************************************************************)
\* the literal '* Version:' the header line is recognised by
StarVersion == <<"*", " ", "V", "e", "r", "s", "i", "o", "n", ":">>
\* the literal 'Version:' the line is split at
VersionKey == <<"V", "e", "r", "s", "i", "o", "n", ":">>

\* Python's None, as a value no text equals
None == <<"<None>">>

\* the loop over the lines: the first line holding '* Version:' decides
RECURSIVE get_version_lines(_)
get_version_lines(lines) ==
    IF lines = <<>>
    THEN None
    ELSE IF Contains(Head(lines), StarVersion)
         THEN Strip(Split(Head(lines), VersionKey)[2])
         ELSE get_version_lines(Tail(lines))

get_version_from_php(text) == get_version_lines(FileLines(text))

(***************************************************************************)
(* The source texts get_version_from_php is applied to: every              *)
(* concatenation of at most MaxPieces pieces.                              *)
(***************************************************************************)
Pieces == {StarVersion, VersionKey, <<" ">>, <<"1">>, <<"2">>, <<"\n">>}

RECURSIVE TextsOf(_)
TextsOf(n) ==
    IF n = 0
    THEN {<<>>}
    ELSE LET shorter == TextsOf(n - 1)
         IN  shorter \cup {t \o p : t \in shorter, p \in Pieces}

Texts == TextsOf(MaxPieces)

Unset == <<"<unset>">>

(***************************************************************************)
(* optimize-images.py: optimize_image                                      *)
(* An image is its mode and its pixels, each pixel a tuple with one value  *)
(* per band of the mode.                                                   *)
(***************************************************************************)
\* the alpha value of a fully opaque pixel
Opaque == 255

Modes == {"L", "LA", "RGB", "RGBA"}

\* Image.getbands()
Bands(mode) ==
    CASE mode = "L"    -> <<"L">>
      [] mode = "LA"   -> <<"L", "A">>
      [] mode = "RGB"  -> <<"R", "G", "B">>
      [] mode = "RGBA" -> <<"R", "G", "B", "A">>

HasAlpha(img) == "A" \in Range(Bands(img.mode))

\* img.split()[k - 1]: band k, as the values of its pixels
SplitBand(img, k) == [i \in DOMAIN img.px |-> img.px[i][k]]

\* the alpha band of an image that has one
AlphaBand(img) == SplitBand(img, Len(Bands(img.mode)))

\* band.getextrema(): (min, max)
GetExtrema(band) ==
    <<CHOOSE lo \in Range(band) : \A v \in Range(band) : lo <= v,
      CHOOSE hi \in Range(band) : \A v \in Range(band) : hi >= v>>

\* img.convert('RGB'): gray is copied to the three channels, alpha is dropped
ConvertRGB(img) ==
    [mode |-> "RGB",
     px   |-> [i \in DOMAIN img.px |->
                 IF img.mode \in {"L", "LA"}
                 THEN <<img.px[i][1], img.px[i][1], img.px[i][1]>>
                 ELSE <<img.px[i][1], img.px[i][2], img.px[i][3]>>]]

\* the mutant: only RGBA images are looked at, the other modes are kept
optimize_image_rgba_only(img) ==
    IF img.mode = "RGBA" /\ GetExtrema(SplitBand(img, 4)) = <<Opaque, Opaque>>
    THEN ConvertRGB(img)
    ELSE img

\* the image optimize_image saves for a decoded source image
optimize_image(img) ==
    IF img.mode = "RGBA"
    THEN IF GetExtrema(SplitBand(img, 4)) = <<Opaque, Opaque>>
         THEN ConvertRGB(img)
         ELSE img
    ELSE IF img.mode # "RGB"
         THEN ConvertRGB(img)
         ELSE img

(***************************************************************************)
(* The images optimize_image is applied to: every mode, 1..MaxPixels       *)
(* pixels, two colour levels and three alpha levels.                       *)
(***************************************************************************)
ColourLevels == {0, Opaque}
AlphaLevels == {0, 128, Opaque}

PixelsOf(mode) ==
    CASE mode = "L"    -> {<<l>> : l \in ColourLevels}
      [] mode = "LA"   -> {<<l, a>> : l \in ColourLevels, a \in AlphaLevels}
      [] mode = "RGB"  -> ColourLevels \X ColourLevels \X ColourLevels
      [] mode = "RGBA" -> ColourLevels \X ColourLevels \X ColourLevels \X AlphaLevels

Images ==
    UNION {UNION {{[mode |-> m, px |-> p] : p \in [1..n -> PixelsOf(m)]}
                  : n \in 1..MaxPixels}
           : m \in Modes}

NoImage == [mode |-> "none", px |-> <<>>]

(***************************************************************************)
(* create-plugin-zip.py: the files and the release directory               *)
(***************************************************************************)
PLUGIN_NAME == "ml-wc-practitioners"
PLUGIN_FILE == "ml-wc-practitioners.php"

\* a missing file, and a file holding text
NoFile == [exists |-> FALSE, text |-> <<>>]
FileOf(text) == [exists |-> TRUE, text |-> text]

\* a missing directory, and an existing empty one
NoDir == [exists |-> FALSE, files |-> <<>>]
EmptyDir == [exists |-> TRUE, files |-> <<>>]

\* os.path.exists(os.path.join(dir, name))
PathExists(dir, name) == dir.exists /\ name \in DOMAIN dir.files

\* os.makedirs(dir) when the directory is not there
MakeDirs(dir) == IF dir.exists THEN dir ELSE EmptyDir

\* the mutant: the whole directory is emptied
RemoveAll(dir, name) == [dir EXCEPT !.files = <<>>]

\* os.remove(os.path.join(dir, name))
Remove(dir, name) ==
    [dir EXCEPT !.files = [n \in DOMAIN dir.files \ {name} |-> dir.files[n]]]

\* a file of the directory created or overwritten with the content
PutFile(dir, name, content) ==
    [dir EXCEPT !.files = (name :> content) @@ dir.files]

\* f"{PLUGIN_NAME}.zip"
base_zip == <<PLUGIN_NAME, ".zip">>

\* f"{PLUGIN_NAME}-{version}.zip"
versioned_zip(version) == <<PLUGIN_NAME, "-">> \o version \o <<".zip">>

\* f"{PLUGIN_NAME}/{PLUGIN_FILE}"
arcname == <<PLUGIN_NAME, "/", PLUGIN_FILE>>

\* zipfile.ZipFile(path, 'w') then zf.write(PLUGIN_FILE, arcname): a new
\* archive, whatever the path held, with the one entry
WritePluginZip(dir, name, text) ==
    PutFile(dir, name, <<[name |-> arcname, data |-> text]>>)

\* the mutant: an archive already at the destination is kept
ShutilCopyKeep(dir, src, dst) ==
    IF dst \in DOMAIN dir.files THEN dir ELSE PutFile(dir, dst, dir.files[src])

\* shutil.copy(src, dst) inside the directory
ShutilCopy(dir, src, dst) == PutFile(dir, dst, dir.files[src])

\* the process has not exited / has exited with the status
Running == <<>>
Exited(status) == <<status>>

\* the mutant: only the empty string is taken for a missing version
FalsyEmptyOnly(version) == version = <<>>

\* `if not version`: None and the empty string are both falsy
Falsy(version) == version = None \/ version = <<>>

\* the release directory a run that passed both checks leaves
PackagedReleases(dir, text, version) ==
    LET made    == MakeDirs(dir)
        cleared == IF PathExists(made, base_zip) THEN Remove(made, base_zip) ELSE made
        zipped  == WritePluginZip(cleared, base_zip, text)
    IN  ShutilCopy(zipped, base_zip, versioned_zip(version))

\* one run of create_plugin_zip
create_plugin_zip ==
    /\ ppc = "ready"
    /\ ppc' = "exited"
    /\ UNCHANGED <<phpFile, verVars, imgVars, optVars>>
    /\ IF ~phpFile.exists
       THEN /\ exitStatus' = Exited(1)
            /\ UNCHANGED releases
       ELSE LET version == get_version_from_php(phpFile.text)
            IN  IF Falsy(version)
                THEN /\ exitStatus' = Exited(1)
                     /\ UNCHANGED releases
                ELSE /\ releases' = PackagedReleases(releases, phpFile.text, version)
                     /\ exitStatus' = Exited(0)

(***************************************************************************)
(* The plugin sources and release directories the packager is run on.      *)
(***************************************************************************)
CommentLine == <<"/", "*", "*", "\n">>

PhpTexts ==
    { StarVersion \o <<" ", "1", "\n">>,                       \* version 1
      CommentLine \o StarVersion \o <<" ", "1", "\n">>,         \* version 1, other content
      StarVersion \o <<" ", "2", "\n">>,                       \* version 2
      CommentLine,                                             \* no Version: at all
      VersionKey \o <<" ", "1", "\n">>,                        \* Version: without the star
      StarVersion \o <<" ", "\n">>,                            \* an empty version
      StarVersion \o <<" ", "1", " ">> \o VersionKey \o <<" ", "2", "\n">> }

PhpFiles == {NoFile} \cup {FileOf(t) : t \in PhpTexts}

\* an archive that did not come from this source: two entries
StaleArchive ==
    <<[name |-> <<"old", "/", "a.php">>, data |-> <<"a">>],
      [name |-> <<"old", "/", "b.php">>, data |-> <<"b">>]>>

InitialReleases ==
    { NoDir,
      EmptyDir,
      PutFile(EmptyDir, base_zip, StaleArchive),
      PutFile(PutFile(EmptyDir, base_zip, StaleArchive),
              versioned_zip(<<"1">>), StaleArchive) }

\* between two runs the plugin source is edited, replaced or deleted
EditSource ==
    /\ ppc = "exited"
    /\ ppc' = "ready"
    /\ phpFile' \in PhpFiles
    /\ UNCHANGED <<releases, exitStatus, verVars, imgVars, optVars>>

(***************************************************************************)
(* optimize-images.py: main                                                *)
(* A file of the image directories is the image Image.open decodes from    *)
(* it, or one of the contents Image.open raises on.                        *)
(***************************************************************************)
Corrupt == [mode |-> "corrupt", px |-> <<>>]
ZeroByte == [mode |-> "zero-byte", px |-> <<>>]
Blob == [mode |-> "not-an-image", px |-> <<>>]

\* Image.open(src_path) returns rather than raises
Decodable(f) == f.mode \in Modes

\* the mutant: the size in whole units, which is none for these files
get_file_size_whole_kb(f) == 0

\* os.path.getsize(path), in abstract units: nothing for the empty file,
\* and more the more samples a file holds
get_file_size_kb(f) ==
    IF f = ZeroByte
    THEN 0
    ELSE IF Decodable(f) THEN 1 + Len(f.px) * Len(Bands(f.mode)) ELSE 1

DotPng == <<".", "p", "n", "g">>

\* the pattern "*.png" matches the name
MatchesPng(name) ==
    /\ Len(name) >= Len(DotPng)
    /\ SubSeq(name, Len(name) - Len(DotPng) + 1, Len(name)) = DotPng

\* the mutant: the pattern "*" instead of "*.png"
GlobAll(dir) == IF dir.exists THEN DOMAIN dir.files ELSE {}

\* Path(dir).glob("*.png"): the names, in no order; nothing when the
\* directory is missing
GlobPng(dir) ==
    IF dir.exists THEN {n \in DOMAIN dir.files : MatchesPng(n)} ELSE {}

\* the orders a directory listing can come in
Orders(S) ==
    {o \in [1..Cardinality(S) -> S] : \A i, j \in DOMAIN o : o[i] = o[j] => i = j}

\* the mutant: a stale output directory is emptied first
MakeDirsPurge(dir) == EmptyDir

\* os.makedirs(OPTIMIZED_DIR, exist_ok=True)
MakeDirsExistOk(dir) == IF dir.exists THEN dir ELSE EmptyDir

\* zf.write(path, name): the entry name ZipFile stores; the host's os.sep,
\* when it is not "/", is replaced by "/"
ArcName(h, name) ==
    IF h = "nt"
    THEN [i \in DOMAIN name |-> IF name[i] = "\\" THEN "/" ELSE name[i]]
    ELSE name

\* the loop of main over the images in listing order: the output directory,
\* the total original size and the names written when the loop ends, and
\* whether optimize_image raised
RECURSIVE OptimizeLoop(_, _, _, _, _)
OptimizeLoop(src, order, out, total_original, done) ==
    IF order = <<>>
    THEN [out |-> out, total_original |-> total_original, done |-> done,
          raised |-> FALSE]
    ELSE LET f == src.files[Head(order)]
         IN  IF ~Decodable(f)
             THEN [out |-> out, total_original |-> total_original, done |-> done,
                   raised |-> TRUE]
             ELSE OptimizeLoop(src, Tail(order),
                               PutFile(out, Head(order), optimize_image(f)),
                               total_original + get_file_size_kb(f),
                               done \cup {Head(order)})

\* the archive written from the output directory listed in the order
ImagesZip(h, out, order) ==
    [exists  |-> TRUE,
     entries |-> [i \in DOMAIN order |->
                    [name |-> ArcName(h, order[i]), data |-> out.files[order[i]]]]]

NoZip == [exists |-> FALSE, entries |-> <<>>]

\* one run of main
main ==
    /\ opc = "ready"
    /\ opc' = "exited"
    /\ UNCHANGED <<host, srcDir, verVars, imgVars, pkgVars>>
    /\ \E order \in Orders(GlobPng(srcDir)) :
         LET r == OptimizeLoop(srcDir, order, MakeDirsExistOk(outDir), 0, {})
         IN  /\ outDir' = r.out
             /\ written' = written \cup r.done
             /\ IF r.raised \/ r.total_original = 0
                THEN \* an exception no handler catches: the interpreter
                     \* prints the traceback and exits with status 1
                     /\ optExit' = Exited(1)
                     /\ UNCHANGED zipFile
                ELSE /\ \E listing \in Orders(GlobPng(r.out)) :
                            zipFile' = ImagesZip(host, r.out, listing)
                     /\ optExit' = Exited(0)

(***************************************************************************)
(* The hosts and directories the optimizer is run on.                      *)
(***************************************************************************)
Hosts == {"posix", "nt"}

NameA == <<"a", ".", "p", "n", "g">>
NameB == <<"b", ".", "p", "n", "g">>
NameBackslash == <<"c", "\\", "d", ".", "p", "n", "g">>
NameOther == <<"T", "h", "u", "m", "b", "s", ".", "d", "b">>

\* a backslash is part of a file name only where it is not the separator
PngNames(h) == IF h = "posix" THEN {NameA, NameBackslash} ELSE {NameA, NameB}

TranslucentPng == [mode |-> "RGBA", px |-> <<<<0, 0, 0, 128>>>>]
OpaquePng == [mode |-> "RGBA", px |-> <<<<0, 0, 0, Opaque>>>>]

PngContents == {TranslucentPng, OpaquePng, Corrupt, ZeroByte}

SourceDirs(h) ==
    {NoDir} \cup
    UNION {UNION {{[exists |-> TRUE, files |-> f @@ o]
                     : o \in {<<>>, NameOther :> Blob}}
                  : f \in [S -> PngContents]}
           : S \in SUBSET PngNames(h)}

\* the output directory before the first run: missing, empty, or holding a
\* file that is not an image of the catalog
InitialOutDirs == {NoDir, EmptyDir, PutFile(EmptyDir, NameOther, Blob)}

\* between two runs the source directory changes
ChangeSources ==
    /\ opc = "exited"
    /\ opc' = "ready"
    /\ srcDir' \in SourceDirs(host)
    /\ UNCHANGED <<host, outDir, zipFile, optExit, written, verVars, imgVars, pkgVars>>

(***************************************************************************)
(* The two functions applied on their own.                                 *)
(***************************************************************************)
GetVersion ==
    /\ verOut = Unset
    /\ verOut' = get_version_from_php(verIn)
    /\ UNCHANGED <<verIn, imgVars, pkgVars, optVars>>

OptimizeImage ==
    /\ imgOut = NoImage
    /\ imgOut' = optimize_image(imgIn)
    /\ UNCHANGED <<imgIn, verVars, pkgVars, optVars>>

(***************************************************************************)
(* Specifications: each component on its own, the others at rest.          *)
(***************************************************************************)
VersionAtRest == verIn = <<>> /\ verOut = Unset
ImageAtRest == imgIn = NoImage /\ imgOut = NoImage
PackagerAtRest ==
    /\ phpFile = NoFile
    /\ releases = NoDir
    /\ exitStatus = Running
    /\ ppc = "ready"
OptimizerAtRest ==
    /\ host = "posix"
    /\ srcDir = NoDir
    /\ outDir = NoDir
    /\ zipFile = NoZip
    /\ optExit = Running
    /\ written = {}
    /\ opc = "ready"

InitVersion ==
    /\ verIn \in Texts
    /\ verOut = Unset
    /\ ImageAtRest /\ PackagerAtRest /\ OptimizerAtRest
NextVersion == GetVersion
SpecVersion == InitVersion /\ [][NextVersion]_vars

InitImage ==
    /\ imgIn \in Images
    /\ imgOut = NoImage
    /\ VersionAtRest /\ PackagerAtRest /\ OptimizerAtRest
NextImage == OptimizeImage
SpecImage == InitImage /\ [][NextImage]_vars

InitPackager ==
    /\ phpFile \in PhpFiles
    /\ releases \in InitialReleases
    /\ exitStatus = Running
    /\ ppc = "ready"
    /\ VersionAtRest /\ ImageAtRest /\ OptimizerAtRest
NextPackager == create_plugin_zip \/ EditSource
SpecPackager == InitPackager /\ [][NextPackager]_vars

InitOptimizer ==
    /\ host \in Hosts
    /\ srcDir \in SourceDirs(host)
    /\ outDir \in InitialOutDirs
    /\ zipFile = NoZip
    /\ optExit = Running
    /\ written = {}
    /\ opc = "ready"
    /\ VersionAtRest /\ ImageAtRest /\ PackagerAtRest
NextOptimizer == main \/ ChangeSources
SpecOptimizer == InitOptimizer /\ [][NextOptimizer]_vars

(***************************************************************************)
(* What the claims speak of.                                               *)
(***************************************************************************)
\* some line of the text contains the substring '* Version:'
HasVersionLine(text) ==
    \E i \in DOMAIN FileLines(text) : Contains(FileLines(text)[i], StarVersion)

\* the first line of the text that contains '* Version:'
FirstVersionLine(text) ==
    LET ls == FileLines(text)
    IN  ls[CHOOSE i \in DOMAIN ls :
                /\ Contains(ls[i], StarVersion)
                /\ \A j \in 1..(i - 1) : ~Contains(ls[j], StarVersion)]

\* everything on the line after its first 'Version:'
RestAfterVersion(line) ==
    SubSeq(line, Find(line, VersionKey) + Len(VersionKey), Len(line))

\* the archive a release is to be: the one entry, the source at
\* <plugin-name>/<filename>
ReleaseOf(text) ==
    <<[name |-> <<"ml-wc-practitioners", "/", "ml-wc-practitioners.php">>,
       data |-> text]>>

\* the run that just ended was a successful packager run
PackagerSucceeded == ppc = "exited" /\ exitStatus = Exited(0)

\* a step that is one packager run
PackagerRuns == ppc = "ready" /\ ppc' = "exited"

\* the names of the entries of an archive
EntryNames(entries) == {entries[i].name : i \in DOMAIN entries}

HasBackslash(name) == "\\" \in Range(name)
HasSlash(name) == "/" \in Range(name)

\* the run that just ended was a successful optimizer run
OptimizerSucceeded == opc = "exited" /\ optExit = Exited(0)

\* the .png files of a directory
PngFilesOf(dir) == {n \in DOMAIN dir.files : MatchesPng(n)}

(***************************************************************************)
(* C1                                                                      *)
(***************************************************************************)
\* C1: a packager run on a missing source file, or on a source with no line
\* containing '* Version:', exits with a nonzero status and leaves the
\* release directory (and the source) exactly as they were.
C1_PreconditionFailureLeavesReleases ==
    [][ (PackagerRuns /\ (~phpFile.exists \/ ~HasVersionLine(phpFile.text)))
          => /\ exitStatus' # Running
             /\ exitStatus' # Exited(0)
             /\ releases' = releases
             /\ phpFile' = phpFile ]_vars

\* a run has failed on a source without a version line while the release
\* directory holds the unversioned archive of an earlier successful run
C1_Witness ==
    /\ ppc = "exited"
    /\ exitStatus = Exited(1)
    /\ phpFile.exists
    /\ ~HasVersionLine(phpFile.text)
    /\ PathExists(releases, base_zip)
    /\ \E t \in PhpTexts : releases.files[base_zip] = ReleaseOf(t)

(***************************************************************************)
(* C2                                                                      *)
(***************************************************************************)
\* C2: for every text with a line containing '* Version:',
\* get_version_from_php returns everything after 'Version:' on the first
\* such line, stripped, also when 'Version:' occurs more than once on it.
C2_VersionIsRestOfLine ==
    (verOut # Unset /\ HasVersionLine(verIn))
        => verOut = Strip(RestAfterVersion(FirstVersionLine(verIn)))

(***************************************************************************)
(* C3                                                                      *)
(***************************************************************************)
\* C3: after a successful packager run the unversioned and the versioned
\* archive have the same content: the one entry holding the source at
\* <plugin-name>/<filename>, whatever the release directory held before.
C3_BothArchivesAreTheRelease ==
    PackagerSucceeded =>
        LET version == get_version_from_php(phpFile.text)
        IN  /\ PathExists(releases, base_zip)
            /\ PathExists(releases, <<"ml-wc-practitioners", "-">> \o version \o <<".zip">>)
            /\ releases.files[base_zip] = ReleaseOf(phpFile.text)
            /\ releases.files[<<"ml-wc-practitioners", "-">> \o version \o <<".zip">>]
                   = releases.files[base_zip]

\* a successful run in a release directory that began with a stale
\* unversioned archive and a stale archive of another version
C3_Witness ==
    /\ PackagerSucceeded
    /\ get_version_from_php(phpFile.text) = <<"2">>
    /\ PathExists(releases, versioned_zip(<<"1">>))
    /\ releases.files[versioned_zip(<<"1">>)] = StaleArchive
    /\ releases.files[base_zip] = ReleaseOf(phpFile.text)

(***************************************************************************)
(* C10                                                                     *)
(***************************************************************************)
\* C10: a successful packager run rebuilds the unversioned archive from the
\* current source alone, makes the versioned archive of the current version
\* equal to it, and neither deletes nor modifies any other file of the
\* release directory.
C10_OtherVersionsAreKept ==
    [][ (PackagerRuns /\ exitStatus' = Exited(0))
          => LET current == versioned_zip(get_version_from_php(phpFile.text))
             IN  /\ releases'.files[base_zip] = ReleaseOf(phpFile.text)
                 /\ releases'.files[current] = releases'.files[base_zip]
                 /\ \A n \in DOMAIN releases.files \ {base_zip, current} :
                        /\ n \in DOMAIN releases'.files
                        /\ releases'.files[n] = releases.files[n] ]_vars

\* after a successful run of version 2 the release directory holds three
\* archives: the unversioned one, version 2, and the version 1 an earlier
\* run made from another source
C10_Witness ==
    /\ PackagerSucceeded
    /\ get_version_from_php(phpFile.text) = <<"2">>
    /\ Cardinality(DOMAIN releases.files) > 2
    /\ PathExists(releases, versioned_zip(<<"1">>))
    /\ \E t \in PhpTexts : releases.files[versioned_zip(<<"1">>)] = ReleaseOf(t)
    /\ releases.files[versioned_zip(<<"2">>)] = releases.files[base_zip]

(***************************************************************************)
(* C4                                                                      *)
(***************************************************************************)
\* C4 as stated: images.zip, once built, has exactly one entry per file of
\* the optimized-output directory, each named by the bare file name with no
\* path separator.
C4_EveryFileIsAnEntry ==
    OptimizerSucceeded =>
        /\ Len(zipFile.entries) = Cardinality(DOMAIN outDir.files)
        /\ EntryNames(zipFile.entries) = DOMAIN outDir.files
        /\ \A i \in DOMAIN zipFile.entries : ~HasSlash(zipFile.entries[i].name)

\* C4, amended: images.zip, once built, has exactly one entry per file of
\* the optimized-output directory whose name matches *.png (other files of
\* the directory are left out), each entry holding that file's content
\* under its bare file name with no path separator.
C4_EveryPngFileIsAnEntry ==
    OptimizerSucceeded =>
        /\ zipFile.exists
        /\ Len(zipFile.entries) = Cardinality(PngFilesOf(outDir))
        /\ EntryNames(zipFile.entries) = PngFilesOf(outDir)
        /\ \A i \in DOMAIN zipFile.entries :
              /\ ~HasSlash(zipFile.entries[i].name)
              /\ zipFile.entries[i].data = outDir.files[zipFile.entries[i].name]

\* an archive built from an output directory that holds two .png files and
\* a file that is not one
C4_Witness ==
    /\ OptimizerSucceeded
    /\ NameOther \in DOMAIN outDir.files
    /\ Cardinality(PngFilesOf(outDir)) = 2
    /\ Len(zipFile.entries) = 2

(***************************************************************************)
(* C5                                                                      *)
(***************************************************************************)
\* C5: no entry name of a produced archive contains a backslash, on any
\* host: not in images.zip, not in the archives of the release directory.
C5_NoBackslashInEntryNames ==
    /\ \A i \in DOMAIN zipFile.entries : ~HasBackslash(zipFile.entries[i].name)
    /\ \A n \in DOMAIN releases.files :
          \A i \in DOMAIN releases.files[n] : ~HasBackslash(releases.files[n][i].name)

(***************************************************************************)
(* C6                                                                      *)
(***************************************************************************)
\* C6: an input with an alpha channel in which some pixel is not fully
\* opaque, in whatever mode carries the alpha, is saved with an alpha
\* channel.
C6_TranslucentKeepsAlpha ==
    (imgOut # NoImage /\ HasAlpha(imgIn)
        /\ \E i \in DOMAIN imgIn.px : AlphaBand(imgIn)[i] # 255)
        => HasAlpha(imgOut)

(***************************************************************************)
(* C7                                                                      *)
(***************************************************************************)
\* C7: an input whose alpha channel is 255 at every pixel is saved as RGB,
\* without alpha; and the saved mode is always RGB or RGBA.
C7_OpaqueAlphaIsDropped ==
    imgOut # NoImage =>
        /\ imgOut.mode \in {"RGB", "RGBA"}
        /\ (HasAlpha(imgIn) /\ \A i \in DOMAIN imgIn.px : AlphaBand(imgIn)[i] = 255)
              => (imgOut.mode = "RGB" /\ \A i \in DOMAIN imgOut.px : Len(imgOut.px[i]) = 3)

\* a two-pixel RGBA image, opaque at both pixels, has been optimized
C7_Witness ==
    /\ imgOut # NoImage
    /\ imgIn.mode = "RGBA"
    /\ Len(imgIn.px) = 2
    /\ \A i \in DOMAIN imgIn.px : imgIn.px[i][4] = 255

(***************************************************************************)
(* C8                                                                      *)
(***************************************************************************)
\* what main needs to reach its end: a source directory with at least one
\* .png file, every one of them decodable
SourcesAreGood ==
    /\ srcDir.exists
    /\ PngFilesOf(srcDir) # {}
    /\ \A n \in PngFilesOf(srcDir) : srcDir.files[n].mode \in {"L", "LA", "RGB", "RGBA"}

\* C8 as stated: the optimizer always exits with status zero.
C8_AlwaysExitsZero == opc = "exited" => optExit = Exited(0)

\* C8, amended: the optimizer exits with status zero exactly when the
\* source directory exists, holds at least one .png file and every one of
\* them decodes; on a missing or empty source directory and on a corrupt or
\* zero-byte image the run ends in an uncaught exception, with status 1.
C8_ExitsZeroOnlyOnGoodSources ==
    opc = "exited" =>
        /\ optExit \in {Exited(0), Exited(1)}
        /\ optExit = Exited(0) <=> SourcesAreGood

\* a run on an existing source directory without any .png file has ended
\* with status 1 and has built no archive
C8_Witness ==
    /\ opc = "exited"
    /\ srcDir.exists
    /\ PngFilesOf(srcDir) = {}
    /\ optExit = Exited(1)
    /\ ~zipFile.exists

(***************************************************************************)
(* C9                                                                      *)
(***************************************************************************)
\* C9: no step removes a file from the output directory, every .png a run
\* wrote is still there, and the archive of a successful run has exactly
\* the names written by that run and by all the runs before it.
C9_StaleOutputsAreArchived ==
    /\ [](/\ written \subseteq DOMAIN outDir.files
          /\ OptimizerSucceeded =>
               /\ PngFilesOf(srcDir) \subseteq written
               /\ EntryNames(zipFile.entries) = written
               /\ Len(zipFile.entries) = Cardinality(written))
    /\ [][DOMAIN outDir.files \subseteq DOMAIN outDir'.files]_vars

\* a successful run whose archive holds a .png that an earlier run wrote
\* and whose source is gone
C9_Witness ==
    /\ OptimizerSucceeded
    /\ \E n \in written :
          /\ n \notin DOMAIN srcDir.files
          /\ n \in EntryNames(zipFile.entries)
          /\ n \in DOMAIN outDir.files

====
